---- MODULE Spec2Model ----
(***************************************************************************)
(* PredictedProcess (a cancellable wrapper around one child process) and   *)
(* PredictedProcessesManager (runAll over a collection of them).           *)
(*                                                                         *)
(* The repository holds several implementations of the two classes.  Each  *)
(* one is modelled by its own operators and has its own specification:     *)
(*   Spec      src/src/PredictedProcess.ts: run with the abort and the     *)
(*             exclusivity check, cleanup, handleAbort                     *)
(*   SpecMemo  src/src/PredictedProcess.ts: the run of a memoized unit      *)
(*   SpecFresh the same, for the first two calls on the unit, which it     *)
(*             keeps                                                       *)
(*   SpecP002  src/unnamed/part_002: run that cleans up first and returns  *)
(*             at once                                                     *)
(*   SpecP003  src/unnamed/part_003: the memoized instance; run shares the  *)
(*             child process remembered for a signal                       *)
(*   SpecP004  src/unnamed/part_004, first class: run whose close listener *)
(*             only ever resolves                                          *)
(*   SpecMgr   src/src/PredictedProcessesManager.ts, both runAll of the    *)
(*             file: the Promise.all one (over unit.run of                 *)
(*             PredictedProcess.ts) and the Promise.allSettled one (which  *)
(*             spawns by itself); mgr names the one a behaviour runs       *)
(*   SpecMgrRun   the same managers, with callers that also call run on a  *)
(*             unit of the collection                                      *)
(*   SpecMgrColl  the same managers, one runAll call, with addProcess and  *)
(*             removeProcess called while it is awaiting                   *)
(*   SpecColl  src/src/PredictedProcessesManager.ts: the constructor,      *)
(*             addProcess, removeProcess and getProcess                    *)
(*   SpecP000  src/unnamed/part_000: runAll over the units of part_002     *)
(* FairSpec and FairSpecMgr are Spec and SpecMgr with the one progress      *)
(* the operating system guarantees: a killed process ends.                 *)
(* Promises settle once: settle leaves a settled outcome alone.  A child   *)
(* process is "running" from spawn until it is killed, fails to start or   *)
(* reports its close event; a killed process still reports a close event   *)
(* later, with any code.                                                   *)
(***************************************************************************)
EXTENDS Integers, Sequences, FiniteSets, TLC

\* ---------------------------------------------------------------- bounds
NUnits == 2          \* units (PredictedProcess objects)
NSignals == 2        \* AbortSignal objects callers hold
MaxExit == 1         \* exit codes 0..MaxExit
MaxRuns == 2         \* child processes spawned in one behaviour of a unit
MaxProcs == 3        \* child processes spawned in one behaviour of a manager
NIds == 2            \* ids the units are constructed with: 1..NIds
MaxLen == 3          \* units in a manager's collection

Units == 1..NUnits
DirectUnits == {1}   \* the unit callers call run() on directly
MaxPromises == MaxRuns + 1   \* run() promises in one behaviour of part_003
MaxCalls == (MaxProcs + 1) \div 2   \* runAll calls in one behaviour
Signals == 1..NSignals
NoSignal == 0        \* run() called without a signal (undefined)
NullCode == -1       \* close event with code null (terminated by an OS signal)
ExitCodes == 0..MaxExit
CloseCodes == ExitCodes \cup {NullCode}
NoProc == 0          \* _childProcess === null
Ids == 1..NIds
NoUnit == 0          \* getProcess found no unit (undefined)

VARIABLES
  childProcess,    \* [Units -> NoProc or a process]: each unit's _childProcess
  procs,           \* the child processes spawned so far, in spawn order
  runs,            \* the promises of the run() calls that spawned, in call order
  abortListeners,  \* [Signals -> set of runs]: 'abort' listeners registered
  aborted,         \* the signals whose abort has fired (signal.aborted)
  lastCall,        \* what the run() call of the last step returned (NoCall: no call)
  mgr,             \* the runAll implementation of the behaviour ("none": units only)
  processes,       \* the manager's _processes: a sequence of units
  calls,           \* the runAll calls made so far, in call order
  memo,            \* the memoization state of the unit callers call directly
  coll             \* the units' ids and the last operation on the collection

vars ==
  <<childProcess, procs, runs, abortListeners, aborted, lastCall, mgr,
    processes, calls, memo, coll>>

\* The part of the state run(), runAll() and the event handlers read and write.
World ==
  [cp |-> childProcess, pr |-> procs, rn |-> runs, al |-> abortListeners,
   last |-> lastCall, ps |-> processes, calls |-> calls, memo |-> memo,
   coll |-> coll]

SetWorld(w) ==
  /\ childProcess' = w.cp
  /\ procs' = w.pr
  /\ runs' = w.rn
  /\ abortListeners' = w.al
  /\ lastCall' = w.last
  /\ processes' = w.ps
  /\ calls' = w.calls
  /\ memo' = w.memo
  /\ coll' = w.coll
  /\ mgr' = mgr

Terminal(o) == o # "pending"
Rejected(o) == o \notin {"pending", "resolved"}
Live(p) == procs[p].state = "running"

\* new Promise: the promise of a run() call on unit u that spawned process p.
NewRun(u, sig, p, call) ==
  [unit |-> u, sig |-> sig, outcome |-> "pending", code |-> NullCode,
   proc |-> p, call |-> call]

\* What a run() call returned: a promise already rejected (outcome), or the
\* pending promise run of a call that spawned process proc.
Returned(u, sig, outcome, r, p) ==
  [unit |-> u, sig |-> sig, outcome |-> outcome, run |-> r, proc |-> p]

NoCall == Returned(0, NoSignal, "none", 0, NoProc)

\* Each unit u is constructed with the id u; no operation on the collection
\* has been called (ctor is the array the manager was constructed with).
NoColl ==
  [ids |-> [u \in Units |-> u], ctor |-> <<>>, op |-> "new", arg |-> 0,
   result |-> NoUnit]

\* memoize() just called: let lastResult = null, lastSignal (undefined).
\* handlers are the runs whose promise has the .catch handler of memoize
\* waiting; served says whether the call of the last step got the cached
\* promise; first and second keep the first two calls made on the unit;
\* latest is the run whose promise the latest call returned (0: no call yet,
\* or a promise rejected by the preconditions), arg the signal the call of
\* the last step was made with.
\* memory is the _memory map of part_003 (signal to child process).
NoKept == [sig |-> NoSignal, ret |-> NoCall, served |-> FALSE, sigAborted |-> FALSE]

NoMemo ==
  [lastResult |-> NoCall, lastSignal |-> NoSignal, handlers |-> {},
   served |-> FALSE, first |-> NoKept, second |-> NoKept, latest |-> 0,
   arg |-> NoSignal,
   memory |-> [s \in Signals |-> NoProc]]

\* The state an event (not a run() call) leaves behind.
SetWorldAfterEvent(w) ==
  SetWorld([w EXCEPT !.last = NoCall, !.memo.served = FALSE,
                     !.memo.arg = NoSignal])

\* spawn(): a child process record, with the close/error listeners of run r.
NewProc(u, r) ==
  [unit |-> u, state |-> "running", listening |-> TRUE, code |-> NullCode,
   run |-> r]

\* resolve()/reject(): a promise settles at most once.
settle(w, r, outcome, code) ==
  IF w.rn[r].outcome = "pending"
  THEN [w EXCEPT !.rn[r].outcome = outcome, !.rn[r].code = code]
  ELSE w

\* ChildProcess.kill(): signals a process that has not terminated yet.
kill(st) == IF st = "running" THEN "killed" ELSE st

\* ------------------------------------------- src/src/PredictedProcess.ts

\* cleanup(): this._childProcess?.removeAllListeners(); ?.kill(); = null.
\* It acts on whatever process the unit holds when it is called.
cleanup_nokill(w, u) ==
  IF w.cp[u] = NoProc THEN w
  ELSE [w EXCEPT !.pr[w.cp[u]].listening = FALSE, !.cp[u] = NoProc]

cleanup(w, u) ==
  IF w.cp[u] = NoProc THEN w
  ELSE [w EXCEPT !.pr[w.cp[u]].listening = FALSE,
                 !.pr[w.cp[u]].state = kill(@),
                 !.cp[u] = NoProc]

\* handleAbort of run r: cleanup(); reject(new Error('Process aborted ...')).
handleAbort(w, r) == settle(cleanup(w, w.rn[r].unit), r, "Cancelled", NullCode)

\* if (this._childProcess) throw new Error('Process is already running').
isRunning_never(w, u) == FALSE

isRunning(w, u) == w.cp[u] # NoProc

\* if (signal?.aborted) throw new Error('Signal already aborted').
alreadyAborted_never(sig) == FALSE

alreadyAborted(sig) == sig # NoSignal /\ sig \in aborted

\* run(signal) on unit u; call names the runAll call that made it (0: none).
run(w, u, sig, call) ==
  LET r == Len(w.rn) + 1
      p == Len(w.pr) + 1
  IN IF alreadyAborted(sig)
     THEN [w EXCEPT !.last = Returned(u, sig, "AlreadyCancelled", 0, NoProc)]
     ELSE IF isRunning(w, u)
     THEN [w EXCEPT !.last = Returned(u, sig, "AlreadyRunning", 0, NoProc)]
     ELSE [w EXCEPT !.cp[u] = p,
                    !.pr = Append(@, NewProc(u, r)),
                    !.rn = Append(@, NewRun(u, sig, p, call)),
                    !.al = IF sig = NoSignal THEN @
                           ELSE [@ EXCEPT ![sig] = @ \cup {r}],
                    !.last = Returned(u, sig, "pending", r, p)]

\* The 'close' listener: cleanup(); code === 0 ? resolve() : reject(...).
onClose(w, p, code) ==
  LET w1 == cleanup(w, w.pr[p].unit)
  IN IF code = 0 THEN settle(w1, w.pr[p].run, "resolved", code)
     ELSE settle(w1, w.pr[p].run, "ExecutionFailed", code)

\* The 'error' listener: cleanup(); reject(err).
onError_nocleanup(w, p) == settle(w, w.pr[p].run, "SpawnFailed", NullCode)

onError(w, p) == settle(cleanup(w, w.pr[p].unit), w.pr[p].run, "SpawnFailed", NullCode)

\* The listeners a fired signal calls, in registration order (once: true).
RECURSIVE fireAbort(_, _)
fireAbort(w, rs) ==
  IF rs = {} THEN w
  ELSE LET r == CHOOSE x \in rs : \A y \in rs : x <= y
       IN fireAbort(handleAbort(w, r), rs \ {r})

\* The child process reports its close event (its own exit, or after a kill).
closeEvent(w, p, code) == [w EXCEPT !.pr[p].state = "closed", !.pr[p].code = code]

\* The spawn primitive reports that the process could not be started.
errorEvent(w, p) == [w EXCEPT !.pr[p].state = "errored"]

Init ==
  /\ childProcess = [u \in Units |-> NoProc]
  /\ procs = <<>>
  /\ runs = <<>>
  /\ abortListeners = [s \in Signals |-> {}]
  /\ aborted = {}
  /\ lastCall = NoCall
  /\ mgr = "none"
  /\ processes = <<>>
  /\ calls = <<>>
  /\ memo = NoMemo
  /\ coll = NoColl

\* A caller calls unit.run(signal).
Run ==
  \E u \in DirectUnits, sig \in Signals \cup {NoSignal} :
    /\ Len(run(World, u, sig, 0).pr) <= MaxRuns
    /\ SetWorld(run(World, u, sig, 0))
    /\ UNCHANGED aborted

\* A caller aborts a signal: every listener registered on it is called.
Abort ==
  \E s \in Signals :
    /\ s \notin aborted
    /\ aborted' = aborted \cup {s}
    /\ SetWorldAfterEvent([fireAbort(World, abortListeners[s]) EXCEPT !.al[s] = {}])

\* A child process closes; its 'close' listener, when attached, is called.
Close ==
  \E p \in 1..Len(procs), code \in CloseCodes :
    /\ procs[p].state \in {"running", "killed", "errored"}
    /\ LET w == closeEvent(World, p, code)
       IN SetWorldAfterEvent(IF procs[p].listening THEN onClose(w, p, code) ELSE w)
    /\ UNCHANGED aborted

\* A child process fails to start; its 'error' listener is called.
Error ==
  \E p \in 1..Len(procs) :
    /\ procs[p].state = "running"
    /\ procs[p].listening
    /\ SetWorldAfterEvent(onError(errorEvent(World, p), p))
    /\ UNCHANGED aborted

Next == Run \/ Abort \/ Close \/ Error

Spec == Init /\ [][Next]_vars

\* A process that was killed, or that could not be started, does not stay:
\* the operating system ends it and Node delivers its close event.  Nothing
\* makes a caller call run or abort, or a running command finish.
CloseKilled ==
  /\ Close
  /\ \E p \in 1..Len(procs) :
       procs[p].state \in {"killed", "errored"} /\ procs'[p].state = "closed"

FairSpec == Spec /\ WF_vars(CloseKilled)

\* ------------------------------- src/src/PredictedProcess.ts, memoize()

\* The handler of .catch in memoize, for the promise of a call made with sig:
\* if (signal === lastSignal) lastResult = null; throw error.
catchHandler_keep(w, sig) == w

catchHandler(w, sig) ==
  IF sig = w.memo.lastSignal THEN [w EXCEPT !.memo.lastResult = NoCall] ELSE w

\* The .catch handlers of the promises in rs, all rejected, are called.
RECURSIVE catchAll(_, _)
catchAll(w, rs) ==
  IF rs = {} THEN w
  ELSE LET r == CHOOSE x \in rs : \A y \in rs : x <= y
       IN catchAll(catchHandler(w, w.rn[r].sig), rs \ {r})

\* The promise reactions of memoize after an event: the handlers of the
\* promises the event rejected are called; a settled promise has no handler
\* waiting any more.
catchRejected(w) ==
  LET done == {r \in w.memo.handlers : Terminal(w.rn[r].outcome)}
      rej == {r \in done : Rejected(w.rn[r].outcome)}
  IN [catchAll(w, rej) EXCEPT !.memo.handlers = @ \ done]

\* The run of a memoized unit, lines 115-129.  With signal === lastSignal the
\* cached promise is returned, or originalRun's own promise when there is
\* none; otherwise lastSignal and lastResult are replaced.  The promise of an
\* async function that throws is rejected at once, and its handler is called
\* before anything else happens.
memoRun_anysignal(w, u, sig) ==
  IF w.memo.lastResult # NoCall
  THEN [w EXCEPT !.last = w.memo.lastResult, !.memo.served = TRUE]
  ELSE LET w1 == run(w, u, sig, 0)
       IN [w1 EXCEPT !.memo.lastSignal = sig, !.memo.lastResult = w1.last,
                     !.memo.served = FALSE]

memoRun(w, u, sig) ==
  IF sig = w.memo.lastSignal /\ w.memo.lastResult # NoCall
  THEN [w EXCEPT !.last = w.memo.lastResult, !.memo.served = TRUE]
  ELSE IF sig = w.memo.lastSignal
  THEN [run(w, u, sig, 0) EXCEPT !.memo.served = FALSE]
  ELSE LET w1 == run(w, u, sig, 0)
           w2 == [w1 EXCEPT !.memo.lastSignal = sig,
                            !.memo.lastResult = w1.last,
                            !.memo.served = FALSE,
                            !.memo.handlers =
                               IF w1.last.run = 0 THEN @ ELSE @ \cup {w1.last.run}]
       IN IF w1.last.run = 0 THEN catchHandler(w2, sig) ELSE w2

\* The first two calls on the memoized unit are kept: the signal, what the
\* call returned, whether it was served from the cache and whether its signal
\* was aborted.
keepCall(w, sig) ==
  LET kept == [sig |-> sig, ret |-> w.last, served |-> w.memo.served,
               sigAborted |-> alreadyAborted(sig)]
  IN IF w.memo.first = NoKept THEN [w EXCEPT !.memo.first = kept]
     ELSE IF w.memo.second = NoKept THEN [w EXCEPT !.memo.second = kept]
     ELSE w

\* The call just made: its signal, and its promise becomes the latest one.
noteCall(w, sig) == [w EXCEPT !.memo.latest = w.last.run, !.memo.arg = sig]

\* A caller calls run(signal) on the memoized unit.
RunMemo ==
  \E u \in DirectUnits, sig \in Signals \cup {NoSignal} :
    /\ Len(memoRun(World, u, sig).pr) <= MaxRuns
    /\ SetWorld(noteCall(memoRun(World, u, sig), sig))
    /\ UNCHANGED aborted

\* One of the first two calls of run(signal) on a freshly memoized unit.
RunFresh ==
  \E u \in DirectUnits, sig \in Signals \cup {NoSignal} :
    /\ memo.second = NoKept
    /\ SetWorld(keepCall(memoRun(World, u, sig), sig))
    /\ UNCHANGED aborted

AbortMemo ==
  \E s \in Signals :
    /\ s \notin aborted
    /\ aborted' = aborted \cup {s}
    /\ SetWorldAfterEvent(catchRejected(
         [fireAbort(World, abortListeners[s]) EXCEPT !.al[s] = {}]))

\* A live child process closes (cleanup detaches the listeners of what it
\* kills, so the close event of a killed process reaches no listener).
CloseMemo ==
  \E p \in 1..Len(procs), code \in CloseCodes :
    /\ procs[p].state = "running"
    /\ procs[p].listening
    /\ SetWorldAfterEvent(catchRejected(onClose(closeEvent(World, p, code), p, code)))
    /\ UNCHANGED aborted

ErrorMemo ==
  \E p \in 1..Len(procs) :
    /\ procs[p].state = "running"
    /\ procs[p].listening
    /\ SetWorldAfterEvent(catchRejected(onError(errorEvent(World, p), p)))
    /\ UNCHANGED aborted

NextMemo == RunMemo \/ AbortMemo \/ CloseMemo \/ ErrorMemo

SpecMemo == Init /\ [][NextMemo]_vars

\* The first two calls on a freshly memoized unit, and the events around them.
NextFresh == RunFresh \/ AbortMemo \/ CloseMemo \/ ErrorMemo

SpecFresh == Init /\ [][NextFresh]_vars

\* ------------------------------------------------- src/unnamed/part_002

\* private cleanup(): if (this._childProcess) { removeAllListeners(); kill();
\* this._childProcess = null }.
cleanup_p002(w, u) ==
  IF w.cp[u] = NoProc THEN w
  ELSE [w EXCEPT !.pr[w.cp[u]].listening = FALSE,
                 !.pr[w.cp[u]].state = kill(@),
                 !.cp[u] = NoProc]

\* run(signal): this.cleanup() first, no check of signal.aborted and none of
\* _childProcess; spawn; 'exit', 'abort' and 'error' listeners;
\* "await finalSignal.aborted" awaits a boolean, so the promise resolves at
\* once, and the catch block lets nothing reject.
run_p002(w, u, sig, call) ==
  LET w1 == cleanup_p002(w, u)
      r == Len(w.rn) + 1
      p == Len(w.pr) + 1
  IN [w1 EXCEPT !.cp[u] = p,
                !.pr = Append(@, NewProc(u, r)),
                !.rn = Append(@, [NewRun(u, sig, p, call) EXCEPT !.outcome = "resolved"]),
                !.al = IF sig = NoSignal THEN @ ELSE [@ EXCEPT ![sig] = @ \cup {r}],
                !.last = Returned(u, sig, "resolved", r, p)]

\* The 'abort' listener of run r on the caller's signal: this.cleanup();
\* controller.abort().
onAbort_p002(w, r) == cleanup_p002(w, w.rn[r].unit)

RECURSIVE fireAbort_p002(_, _)
fireAbort_p002(w, rs) ==
  IF rs = {} THEN w
  ELSE LET r == CHOOSE x \in rs : \A y \in rs : x <= y
       IN fireAbort_p002(onAbort_p002(w, r), rs \ {r})

\* The 'exit' listener: controller.abort().  The run's own controller has a
\* listener only when run was called without a signal (finalSignal is then
\* the controller's signal), and that listener is this.cleanup().
onExit_p002(w, p) ==
  IF w.rn[w.pr[p].run].sig = NoSignal THEN cleanup_p002(w, w.pr[p].unit) ELSE w

\* The 'error' listener: this.cleanup(); controller.abort().
onError_p002(w, p) == cleanup_p002(w, w.pr[p].unit)

Run_p002 ==
  \E u \in DirectUnits, sig \in Signals \cup {NoSignal} :
    /\ Len(run_p002(World, u, sig, 0).pr) <= MaxRuns
    /\ SetWorld(run_p002(World, u, sig, 0))
    /\ UNCHANGED aborted

Abort_p002 ==
  \E s \in Signals :
    /\ s \notin aborted
    /\ aborted' = aborted \cup {s}
    /\ SetWorldAfterEvent(fireAbort_p002(World, abortListeners[s]))

Exit_p002 ==
  \E p \in 1..Len(procs), code \in CloseCodes :
    /\ procs[p].state \in {"running", "killed", "errored"}
    /\ LET w == closeEvent(World, p, code)
       IN SetWorldAfterEvent(IF procs[p].listening THEN onExit_p002(w, p) ELSE w)
    /\ UNCHANGED aborted

Error_p002 ==
  \E p \in 1..Len(procs) :
    /\ procs[p].state = "running"
    /\ procs[p].listening
    /\ SetWorldAfterEvent(onError_p002(errorEvent(World, p), p))
    /\ UNCHANGED aborted

NextP002 == Run_p002 \/ Abort_p002 \/ Exit_p002 \/ Error_p002

SpecP002 == Init /\ [][NextP002]_vars

\* ------------------------------------ src/unnamed/part_004 (first class)

\* handleCleanup(): if (this._childProcess) { removeAllListeners(); kill();
\* this._childProcess = null }.
handleCleanup_p004(w, u) ==
  IF w.cp[u] = NoProc THEN w
  ELSE [w EXCEPT !.pr[w.cp[u]].listening = FALSE,
                 !.pr[w.cp[u]].state = kill(@),
                 !.cp[u] = NoProc]

\* run(signal): the two checks, spawn, 'close' and 'error' listeners; no
\* listener is put on the signal.
run_p004(w, u, sig, call) ==
  LET r == Len(w.rn) + 1
      p == Len(w.pr) + 1
  IN IF alreadyAborted(sig)
     THEN [w EXCEPT !.last = Returned(u, sig, "AlreadyCancelled", 0, NoProc)]
     ELSE IF w.cp[u] # NoProc
     THEN [w EXCEPT !.last = Returned(u, sig, "AlreadyRunning", 0, NoProc)]
     ELSE [w EXCEPT !.cp[u] = p,
                    !.pr = Append(@, NewProc(u, r)),
                    !.rn = Append(@, NewRun(u, sig, p, call)),
                    !.last = Returned(u, sig, "pending", r, p)]

\* handleClose(code): if (Number(code) === 0) res(); handleCleanup().
\* Number(null) is 0; no branch rejects.
handleClose_p004(w, p, code) ==
  LET w1 == IF code = 0 \/ code = NullCode
            THEN settle(w, w.pr[p].run, "resolved", code)
            ELSE w
  IN handleCleanup_p004(w1, w.pr[p].unit)

\* handleError(): handleCleanup(); rej(new WhileExcecutionError()).
handleError_p004(w, p) ==
  settle(handleCleanup_p004(w, w.pr[p].unit), w.pr[p].run, "SpawnFailed", NullCode)

Run_p004 ==
  \E u \in DirectUnits, sig \in Signals \cup {NoSignal} :
    /\ Len(run_p004(World, u, sig, 0).pr) <= MaxRuns
    /\ SetWorld(run_p004(World, u, sig, 0))
    /\ UNCHANGED aborted

Abort_p004 ==
  \E s \in Signals :
    /\ s \notin aborted
    /\ aborted' = aborted \cup {s}
    /\ SetWorldAfterEvent(World)

Close_p004 ==
  \E p \in 1..Len(procs), code \in CloseCodes :
    /\ procs[p].state \in {"running", "killed", "errored"}
    /\ LET w == closeEvent(World, p, code)
       IN SetWorldAfterEvent(IF procs[p].listening THEN handleClose_p004(w, p, code) ELSE w)
    /\ UNCHANGED aborted

Error_p004 ==
  \E p \in 1..Len(procs) :
    /\ procs[p].state = "running"
    /\ procs[p].listening
    /\ SetWorldAfterEvent(handleError_p004(errorEvent(World, p), p))
    /\ UNCHANGED aborted

NextP004 == Run_p004 \/ Abort_p004 \/ Close_p004 \/ Error_p004

SpecP004 == Init /\ [][NextP004]_vars

\* ------------------------------- src/src/PredictedProcessesManager.ts

\* A runAll call: the signal it was given, what each unit's run returned (in
\* collection order), and the promise runAll returned.
NoError == [unit |-> 0, kind |-> "none", code |-> NullCode]

NewCall(sig, returned, state, error) ==
  [sig |-> sig, returned |-> returned, state |-> state, error |-> error]

\* The present outcome of the promise a unit's run returned.
outcomeOf(w, ret) == IF ret.run = 0 THEN ret.outcome ELSE w.rn[ret.run].outcome

\* The error a rejected promise of a unit's run carries.
errorOf(w, ret) ==
  [unit |-> ret.unit, kind |-> outcomeOf(w, ret),
   code |-> IF ret.run = 0 THEN NullCode ELSE w.rn[ret.run].code]

\* The first rejected promise among those of a call, in collection order.
firstRejection(w, returned) ==
  LET rej == {i \in 1..Len(returned) : Rejected(outcomeOf(w, returned[i]))}
  IN CHOOSE i \in rej : \A j \in rej : i <= j

\* this._processes.map(process => process.run(signal)): the runs are started
\* one after the other, in collection order, in the same step.
RECURSIVE mapRun(_, _, _, _, _)
mapRun(w, i, sig, c, returned) ==
  IF i > Len(w.ps) THEN [w |-> w, returned |-> returned]
  ELSE LET w1 == run(w, w.ps[i], sig, c)
       IN mapRun(w1, i + 1, sig, c, Append(returned, w1.last))

\* A runAll that would await the units the collection holds now, not the
\* promises it made.
promiseAll_current(w) ==
  [w EXCEPT !.calls =
     [c \in DOMAIN w.calls |->
        LET call == w.calls[c]
            held == {i \in 1..Len(call.returned) :
                       \E k \in 1..Len(w.ps) : w.ps[k] = call.returned[i].unit}
            outs == {IF call.returned[i].run = 0 THEN call.returned[i].outcome
                     ELSE w.rn[call.returned[i].run].outcome : i \in held}
        IN IF call.state # "awaiting" THEN call
           ELSE IF \E o \in outs : o \notin {"pending", "resolved"}
           THEN [call EXCEPT !.state = "rejected"]
           ELSE IF outs \subseteq {"resolved"}
           THEN [call EXCEPT !.state = "resolved"]
           ELSE call]]

\* await Promise.all(processPromises): runAll rejects as soon as one promise
\* is rejected, with that rejection, and resolves when all are resolved.  A
\* step rejects the promises of one call in collection order (the abort
\* listeners are called in registration order).
promiseAll(w) ==
  [w EXCEPT !.calls =
     [c \in DOMAIN w.calls |->
        LET call == w.calls[c]
            outs == {outcomeOf(w, call.returned[i]) : i \in 1..Len(call.returned)}
        IN IF call.state # "awaiting" THEN call
           ELSE IF \E o \in outs : Rejected(o)
           THEN [call EXCEPT !.state = "rejected",
                   !.error = errorOf(w, call.returned[firstRejection(w, call.returned)])]
           ELSE IF outs \subseteq {"resolved"}
           THEN [call EXCEPT !.state = "resolved"]
           ELSE call]]

\* runAll(signal), lines 39-51: the empty collection is an error; otherwise
\* every unit's run is called and the promises are awaited with Promise.all.
runAll(w, sig) ==
  IF Len(w.ps) = 0
  THEN [w EXCEPT !.calls = Append(@,
          NewCall(sig, <<>>, "rejected", [NoError EXCEPT !.kind = "NoProcessesToRun"]))]
  ELSE LET m == mapRun(w, 1, sig, Len(w.calls) + 1, <<>>)
       IN promiseAll([m.w EXCEPT !.calls = Append(@,
                        NewCall(sig, m.returned, "awaiting", NoError))])

\* cleanUp() of lines 117-120: processInstance.removeAllListeners();
\* processInstance.kill().  It acts on the process of its own promise.
cleanUp_settled(w, p) ==
  [w EXCEPT !.pr[p].listening = FALSE, !.pr[p].state = kill(@)]

\* Lines 113-157 for one unit: spawn (the unit's _childProcess is not used),
\* the 'error' and 'close' listeners, and the 'abort' listener when a signal
\* is given (the signal is not aborted here: runAll checked it).
spawn_settled(w, u, sig, c) ==
  LET r == Len(w.rn) + 1
      p == Len(w.pr) + 1
  IN [w EXCEPT !.pr = Append(@, NewProc(u, r)),
               !.rn = Append(@, NewRun(u, sig, p, c)),
               !.al = IF sig = NoSignal THEN @ ELSE [@ EXCEPT ![sig] = @ \cup {r}],
               !.last = Returned(u, sig, "pending", r, p)]

RECURSIVE mapSpawn_settled(_, _, _, _, _)
mapSpawn_settled(w, i, sig, c, returned) ==
  IF i > Len(w.ps) THEN [w |-> w, returned |-> returned]
  ELSE LET w1 == spawn_settled(w, w.ps[i], sig, c)
       IN mapSpawn_settled(w1, i + 1, sig, c, Append(returned, w1.last))

\* await Promise.allSettled(processPromises), then results.find(rejected):
\* runAll goes on when every promise is settled, and throws the reason of the
\* first rejected one in collection order.
allSettled(w) ==
  [w EXCEPT !.calls =
     [c \in DOMAIN w.calls |->
        LET call == w.calls[c]
            outs == {outcomeOf(w, call.returned[i]) : i \in 1..Len(call.returned)}
        IN IF call.state # "awaiting" \/ "pending" \in outs THEN call
           ELSE IF \E o \in outs : Rejected(o)
           THEN [call EXCEPT !.state = "rejected",
                   !.error = errorOf(w, call.returned[firstRejection(w, call.returned)])]
           ELSE [call EXCEPT !.state = "resolved"]]]

\* runAll(signal), lines 105-168: an aborted signal is an error; there is no
\* check of the empty collection.
runAll_settled(w, sig) ==
  IF alreadyAborted(sig)
  THEN [w EXCEPT !.calls = Append(@,
          NewCall(sig, <<>>, "rejected", [NoError EXCEPT !.kind = "AbortBeforeStart"]))]
  ELSE LET m == mapSpawn_settled(w, 1, sig, Len(w.calls) + 1, <<>>)
       IN allSettled([m.w EXCEPT !.calls = Append(@,
                        NewCall(sig, m.returned, "awaiting", NoError))])

\* The 'error' listener, lines 122-130: hasErrorOccurred = true; cleanUp();
\* reject(...).
onError_settled(w, p) ==
  settle(cleanUp_settled(w, p), w.pr[p].run, "SpawnFailed", NullCode)

\* The 'close' listener, lines 132-139: cleanUp(); reject when code !== 0 or
\* hasErrorOccurred, resolve otherwise.
onClose_settled(w, p, code, hasErrorOccurred) ==
  LET w1 == cleanUp_settled(w, p)
  IN IF code # 0 \/ hasErrorOccurred
     THEN settle(w1, w.pr[p].run, "ExecutionFailed", code)
     ELSE settle(w1, w.pr[p].run, "resolved", code)

\* handleAbort of lines 142-145: cleanUp(); reject(... aborted due to signal).
handleAbort_settled(w, r) ==
  settle(cleanUp_settled(w, w.rn[r].proc), r, "Cancelled", NullCode)

RECURSIVE fireAbort_settled(_, _)
fireAbort_settled(w, rs) ==
  IF rs = {} THEN w
  ELSE LET r == CHOOSE x \in rs : \A y \in rs : x <= y
       IN fireAbort_settled(handleAbort_settled(w, r), rs \ {r})

\* The collections a manager is constructed with: the first n units.
Collections == {[i \in 1..n |-> i] : n \in 0..NUnits}

InitMgr ==
  /\ childProcess = [u \in Units |-> NoProc]
  /\ procs = <<>>
  /\ runs = <<>>
  /\ abortListeners = [s \in Signals |-> {}]
  /\ aborted = {}
  /\ lastCall = NoCall
  /\ mgr \in {"Promise.all", "Promise.allSettled"}
  /\ processes \in Collections
  /\ calls = <<>>
  /\ memo = NoMemo
  /\ coll = NoColl

\* A caller calls manager.runAll(signal).
RunAll ==
  \E sig \in Signals \cup {NoSignal} :
    /\ mgr = "Promise.all"
    /\ Len(calls) < MaxCalls
    /\ Len(runAll(World, sig).pr) <= MaxProcs
    /\ SetWorld(runAll(World, sig))
    /\ UNCHANGED aborted

RunAll_settled ==
  \E sig \in Signals \cup {NoSignal} :
    /\ mgr = "Promise.allSettled"
    /\ Len(calls) < MaxCalls
    /\ Len(runAll_settled(World, sig).pr) <= MaxProcs
    /\ SetWorld(runAll_settled(World, sig))
    /\ UNCHANGED aborted

\* The events of the units' processes under the Promise.all runAll: the
\* listeners of PredictedProcess.ts, then the promise reactions of runAll.
\* Every kill here comes with removeAllListeners, so the close event of a
\* killed process reaches no listener and changes nothing the manager or a
\* unit can read: the manager's specifications leave that event out.
AbortMgr ==
  \E s \in Signals :
    /\ mgr = "Promise.all"
    /\ s \notin aborted
    /\ aborted' = aborted \cup {s}
    /\ SetWorldAfterEvent(promiseAll([fireAbort(World, abortListeners[s]) EXCEPT !.al[s] = {}]))

CloseMgr ==
  \E p \in 1..Len(procs), code \in CloseCodes :
    /\ mgr = "Promise.all"
    /\ procs[p].state = "running"
    /\ procs[p].listening
    /\ SetWorldAfterEvent(promiseAll(onClose(closeEvent(World, p, code), p, code)))
    /\ UNCHANGED aborted

ErrorMgr ==
  \E p \in 1..Len(procs) :
    /\ mgr = "Promise.all"
    /\ procs[p].state = "running"
    /\ procs[p].listening
    /\ SetWorldAfterEvent(promiseAll(onError(errorEvent(World, p), p)))
    /\ UNCHANGED aborted

\* The events of the processes the Promise.allSettled runAll spawned.
Abort_settled ==
  \E s \in Signals :
    /\ mgr = "Promise.allSettled"
    /\ s \notin aborted
    /\ aborted' = aborted \cup {s}
    /\ SetWorldAfterEvent(allSettled([fireAbort_settled(World, abortListeners[s])
                              EXCEPT !.al[s] = {}]))

Close_settled ==
  \E p \in 1..Len(procs), code \in CloseCodes :
    /\ mgr = "Promise.allSettled"
    /\ procs[p].state = "running"
    /\ procs[p].listening
    /\ SetWorldAfterEvent(allSettled(onClose_settled(closeEvent(World, p, code), p, code, FALSE)))
    /\ UNCHANGED aborted

Error_settled ==
  \E p \in 1..Len(procs) :
    /\ mgr = "Promise.allSettled"
    /\ procs[p].state = "running"
    /\ procs[p].listening
    /\ SetWorldAfterEvent(allSettled(onError_settled(errorEvent(World, p), p)))
    /\ UNCHANGED aborted

NextMgr ==
  \/ RunAll \/ AbortMgr \/ CloseMgr \/ ErrorMgr
  \/ RunAll_settled \/ Abort_settled \/ Close_settled \/ Error_settled

SpecMgr == InitMgr /\ [][NextMgr]_vars

\* A process that was killed, or that could not be started, ends: its close
\* event is emitted, to no listener (cleanup and cleanUp removed them).
ExitKilled ==
  \E p \in 1..Len(procs) :
    /\ procs[p].state \in {"killed", "errored"}
    /\ ~procs[p].listening
    /\ procs' = [procs EXCEPT ![p].state = "closed"]
    /\ lastCall' = NoCall
    /\ UNCHANGED <<childProcess, runs, abortListeners, aborted, mgr, processes,
                   calls, memo, coll>>

NextMgrExit == NextMgr \/ ExitKilled

\* The operating system ends a killed process.  Nothing makes a caller call
\* runAll or abort, or a running command finish.
FairSpecMgr == InitMgr /\ [][NextMgrExit]_vars /\ WF_vars(ExitKilled)

\* ---- src/src/PredictedProcessesManager.ts, with callers of the units' run
\* A manager's units are ordinary PredictedProcess objects: a caller can call
\* run on one of them while a runAll is in flight.

\* The listeners of run r are those of PredictedProcess.ts (run registered
\* them), not those of the Promise.allSettled runAll.
ownListeners(w, r) == mgr = "Promise.all" \/ w.rn[r].call = 0

\* The promise reactions of the manager's runAll after an event.
reactions(w) == IF mgr = "Promise.all" THEN promiseAll(w) ELSE allSettled(w)

\* The 'abort' listeners of a fired signal, each the one its run registered.
RECURSIVE fireAbort_units(_, _)
fireAbort_units(w, rs) ==
  IF rs = {} THEN w
  ELSE LET r == CHOOSE x \in rs : \A y \in rs : x <= y
       IN fireAbort_units(IF ownListeners(w, r) THEN handleAbort(w, r)
                          ELSE handleAbort_settled(w, r), rs \ {r})

\* A caller calls run(signal) on a unit of the collection.
RunUnit ==
  \E u \in DirectUnits, sig \in Signals \cup {NoSignal} :
    /\ \E i \in 1..Len(processes) : processes[i] = u
    /\ Len(run(World, u, sig, 0).pr) <= MaxRuns
    /\ SetWorld(run(World, u, sig, 0))
    /\ UNCHANGED aborted

AbortUnits ==
  \E s \in Signals :
    /\ s \notin aborted
    /\ aborted' = aborted \cup {s}
    /\ SetWorldAfterEvent(reactions([fireAbort_units(World, abortListeners[s])
                                      EXCEPT !.al[s] = {}]))

CloseUnits ==
  \E p \in 1..Len(procs), code \in CloseCodes :
    /\ procs[p].state = "running"
    /\ procs[p].listening
    /\ LET w == closeEvent(World, p, code)
       IN SetWorldAfterEvent(reactions(
            IF ownListeners(w, procs[p].run) THEN onClose(w, p, code)
            ELSE onClose_settled(w, p, code, FALSE)))
    /\ UNCHANGED aborted

ErrorUnits ==
  \E p \in 1..Len(procs) :
    /\ procs[p].state = "running"
    /\ procs[p].listening
    /\ LET w == errorEvent(World, p)
       IN SetWorldAfterEvent(reactions(
            IF ownListeners(w, procs[p].run) THEN onError(w, p)
            ELSE onError_settled(w, p)))
    /\ UNCHANGED aborted

NextMgrRun ==
  \/ RunAll \/ RunAll_settled \/ RunUnit
  \/ AbortUnits \/ CloseUnits \/ ErrorUnits

SpecMgrRun == InitMgr /\ [][NextMgrRun]_vars

\* ------- src/src/PredictedProcessesManager.ts, the collection (lines 6-26)

\* The arrays a manager can be constructed with, and the collections it holds.
RECURSIVE SeqsUpTo(_)
SeqsUpTo(n) ==
  IF n = 0 THEN {<<>>}
  ELSE LET shorter == SeqsUpTo(n - 1)
       IN shorter \cup {Append(s, u) : s \in {x \in shorter : Len(x) = n - 1}, u \in Units}

\* addProcess(process): this._processes.push(process).
addProcess(ps, u) == Append(ps, u)

\* removeProcess(id): this._processes.filter((process) => process.id !== id).
RECURSIVE removeProcess_first(_, _, _)
removeProcess_first(ps, ids, id) ==
  IF ps = <<>> THEN <<>>
  ELSE IF ids[Head(ps)] = id THEN Tail(ps)
  ELSE <<Head(ps)>> \o removeProcess_first(Tail(ps), ids, id)

RECURSIVE removeProcess(_, _, _)
removeProcess(ps, ids, id) ==
  IF ps = <<>> THEN <<>>
  ELSE IF ids[Head(ps)] # id THEN <<Head(ps)>> \o removeProcess(Tail(ps), ids, id)
  ELSE removeProcess(Tail(ps), ids, id)

\* getProcess(id): this.processes.find((process) => process.id === id), on
\* the copy the getter returns.
RECURSIVE getProcess_last(_, _, _)
getProcess_last(ps, ids, id) ==
  IF ps = <<>> THEN NoUnit
  ELSE IF ids[ps[Len(ps)]] = id THEN ps[Len(ps)]
  ELSE getProcess_last(SubSeq(ps, 1, Len(ps) - 1), ids, id)

RECURSIVE getProcess(_, _, _)
getProcess(ps, ids, id) ==
  IF ps = <<>> THEN NoUnit
  ELSE IF ids[Head(ps)] = id THEN Head(ps)
  ELSE getProcess(Tail(ps), ids, id)

\* The ids the units can be constructed with.  Ids are only compared for
\* equality (process.id === id), so the units are numbered in the order in
\* which their ids first appear: unit 1 has id 1, and a unit has either the
\* id of an earlier unit or the next id.
UnitIds ==
  {f \in [Units -> Ids] :
     \A u \in Units : f[u] = 1 \/ \E v \in 1..(u - 1) : f[v] >= f[u] - 1}

\* new PredictedProcessesManager(processes): this._processes = processes.slice(),
\* over units constructed with any ids.
InitColl ==
  /\ childProcess = [u \in Units |-> NoProc]
  /\ procs = <<>>
  /\ runs = <<>>
  /\ abortListeners = [s \in Signals |-> {}]
  /\ aborted = {}
  /\ lastCall = NoCall
  /\ mgr = "collection"
  /\ processes \in SeqsUpTo(MaxLen)
  /\ calls = <<>>
  /\ memo = NoMemo
  /\ coll \in {[NoColl EXCEPT !.ids = f, !.ctor = processes] : f \in UnitIds}

AddProcess ==
  \E u \in Units :
    /\ Len(processes) < MaxLen
    /\ SetWorld([World EXCEPT !.ps = addProcess(processes, u),
                              !.coll.op = "add", !.coll.arg = u,
                              !.coll.result = NoUnit])
    /\ UNCHANGED aborted

RemoveProcess ==
  \E id \in Ids :
    /\ SetWorld([World EXCEPT !.ps = removeProcess(processes, coll.ids, id),
                              !.coll.op = "remove", !.coll.arg = id,
                              !.coll.result = NoUnit])
    /\ UNCHANGED aborted

GetProcess ==
  \E id \in Ids :
    /\ SetWorld([World EXCEPT !.coll.op = "get", !.coll.arg = id,
                              !.coll.result = getProcess(processes, coll.ids, id)])
    /\ UNCHANGED aborted

NextColl == AddProcess \/ RemoveProcess \/ GetProcess

SpecColl == InitColl /\ [][NextColl]_vars

\* A manager whose collection changes while its runAll call is in flight:
\* addProcess and removeProcess extend or replace this._processes, runAll
\* awaits the promises it made from the collection it found.  One runAll call
\* is made; callers add a unit the manager does not hold yet, or remove the
\* units of an id, while the call is awaiting.
InFlight == \E c \in 1..Len(calls) : calls[c].state = "awaiting"

RunAllFirst == Len(calls) = 0 /\ (RunAll \/ RunAll_settled)

AddInFlight ==
  \E u \in Units :
    /\ InFlight
    /\ \A i \in 1..Len(processes) : processes[i] # u
    /\ SetWorld([World EXCEPT !.ps = addProcess(processes, u)])
    /\ UNCHANGED aborted

RemoveInFlight ==
  \E id \in Ids :
    /\ InFlight
    /\ SetWorld([World EXCEPT !.ps = removeProcess(processes, coll.ids, id)])
    /\ UNCHANGED aborted

NextMgrColl ==
  \/ RunAllFirst \/ AddInFlight \/ RemoveInFlight
  \/ AbortMgr \/ CloseMgr \/ ErrorMgr
  \/ Abort_settled \/ Close_settled \/ Error_settled

SpecMgrColl == InitMgr /\ [][NextMgrColl]_vars

\* ------------------------------------------------- src/unnamed/part_000

RECURSIVE mapRun_p000(_, _, _, _, _)
mapRun_p000(w, i, sig, c, returned) ==
  IF i > Len(w.ps) THEN [w |-> w, returned |-> returned]
  ELSE LET w1 == run_p002(w, w.ps[i], sig, c)
       IN mapRun_p000(w1, i + 1, sig, c, Append(returned, w1.last))

\* for (const process of this._processes) if (signal && signal.aborted)
\* process.cleanupExternal().
RECURSIVE cleanupAll_p000(_, _)
cleanupAll_p000(w, i) ==
  IF i > Len(w.ps) THEN w
  ELSE cleanupAll_p000(cleanup_p002(w, w.ps[i]), i + 1)

\* executionPromises.some(promise => { try { promise.catch(() => {});
\* return true } catch { return false } }): promise.catch never throws, so
\* this is true exactly when there is a promise.
hasFailed_p000(returned) == Len(returned) > 0

\* runAll(signal) of part_000: run every unit, await Promise.allSettled (the
\* promises of part_002's run are resolved already), clean up when the
\* signal is aborted, then throw or resolve.
runAll_p000(w, sig) ==
  LET m == mapRun_p000(w, 1, sig, Len(w.calls) + 1, <<>>)
      w1 == IF alreadyAborted(sig) THEN cleanupAll_p000(m.w, 1) ELSE m.w
      call == IF alreadyAborted(sig)
              THEN NewCall(sig, m.returned, "rejected",
                           [NoError EXCEPT !.kind = "ExecutionAborted"])
              ELSE IF hasFailed_p000(m.returned)
              THEN NewCall(sig, m.returned, "rejected",
                           [NoError EXCEPT !.kind = "OneOrMoreFailed"])
              ELSE NewCall(sig, m.returned, "resolved", NoError)
  IN [w1 EXCEPT !.calls = Append(@, call)]

InitP000 ==
  /\ childProcess = [u \in Units |-> NoProc]
  /\ procs = <<>>
  /\ runs = <<>>
  /\ abortListeners = [s \in Signals |-> {}]
  /\ aborted = {}
  /\ lastCall = NoCall
  /\ mgr = "part_000"
  /\ processes \in Collections
  /\ calls = <<>>
  /\ memo = NoMemo
  /\ coll = NoColl

RunAll_p000 ==
  \E sig \in Signals \cup {NoSignal} :
    /\ Len(calls) < MaxCalls
    /\ Len(runAll_p000(World, sig).pr) <= MaxProcs
    /\ SetWorld(runAll_p000(World, sig))
    /\ UNCHANGED aborted

\* The exit of a live process of a unit (see the note on killed processes
\* above: part_002's cleanup detaches the listeners of what it kills).
Exit_p000 ==
  \E p \in 1..Len(procs), code \in CloseCodes :
    /\ procs[p].state = "running"
    /\ procs[p].listening
    /\ SetWorldAfterEvent(onExit_p002(closeEvent(World, p, code), p))
    /\ UNCHANGED aborted

NextP000 == RunAll_p000 \/ Abort_p002 \/ Exit_p000 \/ Error_p002

SpecP000 == InitP000 /\ [][NextP000]_vars

\* ------------------------------------------------- src/unnamed/part_003
\* The instance memoize() returns (_memoized = true, _memory = null).  Its
\* run never removes a listener and never uses a handle; every run adds one
\* callback to _onCloseCallbacks, and every 'close' listener calls them all.

\* forget(signal): if (!signal || !this._memoized) return; _memory.delete.
forget_p003(w, sig) ==
  IF sig = NoSignal THEN w ELSE [w EXCEPT !.memo.memory[sig] = NoProc]

\* run(signal), with makeProcess: the process remembered for the signal, or
\* spawn(command, { signal }) and remember; then the listeners.
run_p003(w, u, sig) ==
  LET r == Len(w.rn) + 1
      hit == sig # NoSignal /\ w.memo.memory[sig] # NoProc
      p == IF hit THEN w.memo.memory[sig] ELSE Len(w.pr) + 1
  IN IF alreadyAborted(sig)
     THEN [w EXCEPT !.last = Returned(u, sig, "AlreadyCancelled", 0, NoProc),
                    !.memo.served = FALSE]
     ELSE [w EXCEPT !.pr = IF hit THEN @ ELSE Append(@, NewProc(u, r)),
                    !.rn = Append(@, NewRun(u, sig, p, 0)),
                    !.memo.memory = IF sig = NoSignal THEN @
                                    ELSE [@ EXCEPT ![sig] = p],
                    !.memo.served = hit,
                    !.last = Returned(u, sig, "pending", r, p)]

\* The callback run r pushed to _onCloseCallbacks: resolve on code 0, else
\* forget(signal) and reject; then process.kill() on the run's process.
closeCallback_p003(w, r, code) ==
  LET w1 == IF code = 0 THEN settle(w, r, "resolved", code)
            ELSE settle(forget_p003(w, w.rn[r].sig), r, "ExecutionFailed", code)
  IN [w1 EXCEPT !.pr[w.rn[r].proc].state = kill(@)]

\* this._onCloseCallbacks.map((cb) => cb(code, signal)): all the callbacks
\* of the unit, in the order of the runs.
RECURSIVE onClose_p003(_, _, _)
onClose_p003(w, i, code) ==
  IF i > Len(w.rn) THEN w
  ELSE onClose_p003(closeCallback_p003(w, i, code), i + 1, code)

\* The 'error' listeners on process p, one per run that got p: forget(signal);
\* reject(new SpawnProcessFailureException(error)).
RECURSIVE onError_p003(_, _, _)
onError_p003(w, p, i) ==
  IF i > Len(w.rn) THEN w
  ELSE IF w.rn[i].proc # p THEN onError_p003(w, p, i + 1)
  ELSE onError_p003(settle(forget_p003(w, w.rn[i].sig), i, "SpawnFailed", NullCode),
                    p, i + 1)

\* spawn's signal option: when the signal is aborted, a child that has not
\* exited is killed and emits 'error' (an AbortError).
RECURSIVE abort_p003(_, _, _)
abort_p003(w, s, p) ==
  IF p > Len(w.pr) THEN w
  ELSE IF w.rn[w.pr[p].run].sig = s /\ w.pr[p].state \in {"running", "killed"}
  THEN abort_p003(onError_p003([w EXCEPT !.pr[p].state = "killed"], p, 1), s, p + 1)
  ELSE abort_p003(w, s, p + 1)

Run_p003 ==
  \E u \in DirectUnits, sig \in Signals \cup {NoSignal} :
    /\ Len(run_p003(World, u, sig).pr) <= MaxRuns
    /\ Len(run_p003(World, u, sig).rn) <= MaxPromises
    /\ SetWorld(keepCall(run_p003(World, u, sig), sig))
    /\ UNCHANGED aborted

Abort_p003 ==
  \E s \in Signals :
    /\ s \notin aborted
    /\ aborted' = aborted \cup {s}
    /\ SetWorldAfterEvent(abort_p003(World, s, 1))

\* A child process closes, by itself or after a kill; its listeners are
\* still attached.
Close_p003 ==
  \E p \in 1..Len(procs), code \in CloseCodes :
    /\ procs[p].state \in {"running", "killed", "errored"}
    /\ SetWorldAfterEvent(onClose_p003(closeEvent(World, p, code), 1, code))
    /\ UNCHANGED aborted

Error_p003 ==
  \E p \in 1..Len(procs) :
    /\ procs[p].state = "running"
    /\ SetWorldAfterEvent(onError_p003(errorEvent(World, p), p, 1))
    /\ UNCHANGED aborted

NextP003 == Run_p003 \/ Abort_p003 \/ Close_p003 \/ Error_p003

SpecP003 == Init /\ [][NextP003]_vars

\* ================================================================ claims

\* The processes of unit u that are live (spawned, not killed, not closed).
LiveProcs(u) == {p \in 1..Len(procs) : procs[p].unit = u /\ Live(p)}

\* This step is a run() call (lastCall' names the call and what it returned).
RunCallStep == lastCall' # NoCall

\* The step leaves the unit state, the processes and the promises alone.
UnitStateUnchanged ==
  /\ childProcess' = childProcess
  /\ procs' = procs
  /\ runs' = runs
  /\ abortListeners' = abortListeners

\* The latest run() call on unit u that spawned (0: none).
LatestRun(u) ==
  LET rs == {r \in 1..Len(runs) : runs[r].unit = u}
  IN IF rs = {} THEN 0 ELSE CHOOSE r \in rs : \A q \in rs : q <= r

\* C1: a run call (signal not aborted) made while an earlier run's child
\* process is live is rejected with AlreadyRunning and spawns nothing; the
\* earlier run keeps its process, its listeners and its pending promise.
C1_RunWhileLiveRejected ==
  [][(RunCallStep /\ ~alreadyAborted(lastCall'.sig)
        /\ LiveProcs(lastCall'.unit) # {})
      => (lastCall'.outcome = "AlreadyRunning" /\ UnitStateUnchanged)]_vars

\* C2: a run call with a signal that is already aborted rejects with
\* AlreadyCancelled in any state of the unit, spawns nothing, registers no
\* listener and leaves the handle and any run in flight unchanged.
C2_AbortedSignalRejected ==
  [][(RunCallStep /\ alreadyAborted(lastCall'.sig))
      => (lastCall'.outcome = "AlreadyCancelled" /\ UnitStateUnchanged)]_vars

\* C3: in every reachable state a unit has at most one live child process.
C3_AtMostOneLive == \A u \in Units : Cardinality(LiveProcs(u)) <= 1

\* C3 witness: a second process of the unit is live after the first one ended,
\* and a run call made meanwhile was rejected as already running.
C3_Witness ==
  /\ Len(procs) >= 2
  /\ LiveProcs(1) # {}
  /\ lastCall.outcome = "AlreadyRunning"

\* C4: when the signal of a run is aborted while its child process is live,
\* the process is killed, its close/error listeners are detached and the run
\* rejects as Cancelled; a Cancelled run never changes its outcome afterwards,
\* whatever code the killed process reports.
C4_AbortWhileLiveCancels ==
  [][\A r \in 1..Len(runs) :
       /\ (runs[r].sig \in aborted' \ aborted /\ Live(runs[r].proc))
          => /\ procs'[runs[r].proc].state = "killed"
             /\ ~procs'[runs[r].proc].listening
             /\ runs'[r].outcome = "Cancelled"
       /\ runs[r].outcome = "Cancelled" => runs'[r].outcome = "Cancelled"]_vars

\* C4 witness: a run was cancelled and its killed process then reported
\* exit code 0.
C4_Witness ==
  \E r \in 1..Len(runs) :
    /\ runs[r].outcome = "Cancelled"
    /\ procs[runs[r].proc].state = "closed"
    /\ procs[runs[r].proc].code = 0

\* C5: aborting a signal after every run started with it has reached a
\* terminal outcome changes nothing for the unit: no outcome, no handle, no
\* process (so no later run is affected).
C5_LateAbortIsNoOp ==
  [][\A s \in aborted' \ aborted :
       ((\E r \in 1..Len(runs) : runs[r].sig = s)
          /\ \A r \in 1..Len(runs) : runs[r].sig = s => Terminal(runs[r].outcome))
       => (childProcess' = childProcess /\ procs' = procs /\ runs' = runs)]_vars

\* C6: once a run attempt has a terminal outcome the unit no longer holds its
\* process, and no observer of the attempt is attached: not the close/error
\* listeners on the child, not the abort listener on the signal.
C6_ReleasedAfterTerminal ==
  \A r \in 1..Len(runs) :
    Terminal(runs[r].outcome)
    => /\ childProcess[runs[r].unit] # runs[r].proc
       /\ ~procs[runs[r].proc].listening
       /\ runs[r].sig # NoSignal => r \notin abortListeners[runs[r].sig]

\* C7: when the child terminates by itself with an exit code, run resolves
\* iff the code is 0 and rejects as ExecutionFailed with that code otherwise;
\* the handle is then released, and a run call made after such an outcome
\* (with a signal that is not aborted) spawns a new process.
C7_ExitCodeDecidesOutcome ==
  [][/\ \A p \in 1..Len(procs) :
          (Live(p) /\ procs[p].listening /\ procs'[p].state = "closed"
             /\ procs'[p].code # NullCode)
          => /\ runs'[procs[p].run].outcome =
                  (IF procs'[p].code = 0 THEN "resolved" ELSE "ExecutionFailed")
             /\ runs'[procs[p].run].code = procs'[p].code
             /\ childProcess'[procs[p].unit] = NoProc
     /\ (RunCallStep /\ ~alreadyAborted(lastCall'.sig)
           /\ LatestRun(lastCall'.unit) # 0
           /\ runs[LatestRun(lastCall'.unit)].outcome \in {"resolved", "ExecutionFailed"})
        => lastCall'.proc # NoProc]_vars

\* The runAll call c returns (resolves or rejects) in this step.
ReturnsNow(c) ==
  /\ calls'[c].state # "awaiting"
  /\ c > Len(calls) \/ calls[c].state = "awaiting"

\* C8: runAll does not return while a unit it started is still running: when
\* it returns, every run it started is settled and none of their processes
\* is live.
C8_ReturnsAfterAllUnits ==
  [][\A c \in 1..Len(calls') :
       ReturnsNow(c)
       => \A i \in 1..Len(calls'[c].returned) :
            LET ret == calls'[c].returned[i]
            IN ret.run # 0 => /\ Terminal(runs'[ret.run].outcome)
                              /\ procs'[ret.proc].state # "running"]_vars

\* C9: a runAll that ran the units of a non-empty collection and has
\* returned resolved if and only if every unit's run resolved.
C9_ResolvesIffAllSucceeded ==
  \A c \in 1..Len(calls) :
    (calls[c].state # "awaiting" /\ Len(calls[c].returned) > 0)
    => (calls[c].state = "resolved"
          <=> \A i \in 1..Len(calls[c].returned) :
                outcomeOf(World, calls[c].returned[i]) = "resolved")

\* C10: when the shared signal of a runAll in flight is aborted, every run of
\* it that is still pending ends as Cancelled with its process killed; a unit
\* whose run had already terminated is unaffected (its outcome, its handle
\* and its processes stay as they were); and runAll returns failure in a
\* state where no process it started is live and no unit holds one as its
\* handle.
C10_AbortCancelsAllInFlight ==
  [][\A c \in 1..Len(calls) :
       (calls[c].state = "awaiting" /\ calls[c].sig \in aborted' \ aborted)
       => /\ calls'[c].state = "rejected"
          /\ \A i \in 1..Len(calls[c].returned) :
               LET ret == calls[c].returned[i]
               IN /\ procs'[ret.proc].state # "running"
                  /\ childProcess'[ret.unit] # ret.proc
                  /\ runs[ret.run].outcome = "pending"
                     => /\ runs'[ret.run].outcome = "Cancelled"
                        /\ Live(ret.proc) => procs'[ret.proc].state = "killed"
                  /\ Terminal(runs[ret.run].outcome)
                     => /\ runs'[ret.run] = runs[ret.run]
                        /\ childProcess'[ret.unit] = childProcess[ret.unit]
                        /\ \A p \in 1..Len(procs) :
                             procs[p].unit = ret.unit => procs'[p] = procs[p]]_vars

\* The present outcome of the promise a kept call on a memoized unit returned.
MemoOutcome(kept) == outcomeOf(World, kept.ret)

\* The processes the first two calls on the memoized unit spawned.
SpawnedByFirstTwo ==
  {k.ret.proc : k \in {x \in {memo.first, memo.second} : x.ret.run # 0}}

\* The first two calls on a freshly memoized unit were made with the same
\* AbortSignal object, not aborted at either call, and the first resolved.
SameSignalTwice ==
  /\ memo.second # NoKept
  /\ memo.first.sig # NoSignal
  /\ memo.second.sig = memo.first.sig
  /\ ~memo.first.sigAborted
  /\ ~memo.second.sigAborted
  /\ MemoOutcome(memo.first) = "resolved"

\* C11: on a freshly memoized unit, two run calls with the same AbortSignal
\* object (not aborted), the first of which resolves, spawn exactly one child
\* process in total, and the second call resolves too.
C11_SameSignalSpawnsOnce ==
  SameSignalTwice
  => (Cardinality(SpawnedByFirstTwo) = 1 /\ MemoOutcome(memo.second) = "resolved")

RunAllStep == Len(calls') = Len(calls) + 1

\* C13: runAll called on an empty collection rejects with 'No processes to
\* run' and spawns nothing; it never resolves.
C13_EmptyCollectionRejected ==
  [][(RunAllStep /\ Len(processes) = 0)
      => /\ calls'[Len(calls')].state = "rejected"
         /\ calls'[Len(calls')].error.kind = "NoProcessesToRun"
         /\ procs' = procs]_vars

\* C14: when a live child process closes with no exit code (it was terminated
\* by an OS signal, not by the unit), its pending run rejects as a failed
\* execution that records the missing code; it never resolves.
C14_SignalTerminationFails ==
  [][\A p \in 1..Len(procs) :
       (Live(p) /\ procs[p].listening /\ procs'[p].state = "closed"
          /\ procs'[p].code = NullCode /\ runs[procs[p].run].outcome = "pending")
       => /\ runs'[procs[p].run].outcome = "ExecutionFailed"
          /\ runs'[procs[p].run].code = NullCode]_vars

\* C15: when a live child process reports that it could not be started, its
\* run rejects as SpawnFailed (not as ExecutionFailed) and the unit's handle is
\* released; a SpawnFailed run keeps its outcome whatever is delivered for
\* the same launch afterwards.
C15_SpawnErrorRejects ==
  [][\A p \in 1..Len(procs) :
       /\ (Live(p) /\ procs[p].listening /\ procs'[p].state = "errored")
          => /\ runs'[procs[p].run].outcome = "SpawnFailed"
             /\ childProcess'[procs[p].unit] = NoProc
       /\ (runs[procs[p].run].outcome = "SpawnFailed"
             /\ procs[p].state = "errored" /\ procs'[p].state = "closed")
          => /\ runs'[procs[p].run] = runs[procs[p].run]
             /\ childProcess' = childProcess]_vars

\* C15 witness: a run rejected as SpawnFailed, and the close event of the same
\* launch was delivered afterwards.
C15_Witness ==
  \E r \in 1..Len(runs) :
    /\ runs[r].outcome = "SpawnFailed"
    /\ procs[runs[r].proc].state = "closed"

\* The positions of the collection ps that hold a unit whose id is id.
Matches(ps, id) == {i \in 1..Len(ps) : coll.ids[ps[i]] = id}

\* The step is a call of the named operation on the collection.
CollStep(op) == coll'.op = op /\ <<processes, coll>>' # <<processes, coll>>

\* C16: the collection is the constructor's array, in its order, until an
\* operation changes it; addProcess appends its unit at the end, whatever the
\* collection holds already; getProcess(id) returns the unit at the first
\* position whose id is id, or undefined when there is none, and leaves the
\* collection as it was.
C16_InsertionOrderFirstMatch ==
  [][/\ coll.op = "new" => processes = coll.ctor
     /\ CollStep("add")
        => /\ Len(processes') = Len(processes) + 1
           /\ \A i \in 1..Len(processes) : processes'[i] = processes[i]
           /\ processes'[Len(processes')] = coll'.arg
     /\ CollStep("get")
        => /\ processes' = processes
           /\ LET m == Matches(processes, coll'.arg)
              IN IF m = {} THEN coll'.result = NoUnit
                 ELSE \E i \in m : /\ \A j \in m : i <= j
                                    /\ coll'.result = processes[i]]_vars

\* C16 witness: getProcess returned the first of two different units that
\* have the id asked for.
C16_Witness ==
  /\ coll.op = "get"
  /\ \E i, j \in Matches(processes, coll.arg) :
       i < j /\ processes[i] # processes[j] /\ coll.result = processes[i]

\* C17: removeProcess(id) removes exactly the units whose id is id and keeps
\* the others in their order; getProcess(id) then finds nothing; when no
\* unit has the id the collection is unchanged.
C17_RemoveAllMatching ==
  [][CollStep("remove")
      => LET id == coll'.arg
             keep == (1..Len(processes)) \ Matches(processes, id)
         IN /\ Len(processes') = Cardinality(keep)
            /\ \A i \in keep :
                 processes'[Cardinality({j \in keep : j <= i})] = processes[i]
            /\ getProcess(processes', coll.ids, id) = NoUnit
            /\ Matches(processes, id) = {} => processes' = processes]_vars

\* C17 witness: removeProcess took the first and the last of three units and
\* left the one between them.
C17_Witness ==
  /\ coll.op = "remove"
  /\ Len(coll.ctor) = 3
  /\ processes = <<coll.ctor[2]>>
  /\ coll.ids[coll.ctor[1]] = coll.arg
  /\ coll.ids[coll.ctor[3]] = coll.arg

\* The child process of run r has delivered its termination event, or the
\* signal the run was called with has been aborted.
Delivered(r) ==
  \/ procs[runs[r].proc].state \in {"closed", "errored"}
  \/ runs[r].sig # NoSignal /\ runs[r].sig \in aborted

\* C18: every run call that spawned a process settles eventually once its
\* process has delivered its termination event or its own signal has been
\* aborted, whatever else happened on the unit.
C18_SpawnedRunSettles ==
  \A r \in 1..MaxPromises :
    [](r <= Len(runs) /\ Delivered(r)
         => <>(r <= Len(runs) /\ Terminal(runs[r].outcome)))

\* An event of run r's own attempt arrives in this step: the close event of
\* its child process, or the abort of its signal (with no other run of that
\* signal still pending, whose cancellation the same abort would be).
LateEvent(r) ==
  \/ procs[runs[r].proc].state # "closed" /\ procs'[runs[r].proc].state = "closed"
  \/ /\ runs[r].sig \in aborted' \ aborted
     /\ \A q \in 1..Len(runs) :
          runs[q].sig = runs[r].sig => Terminal(runs[q].outcome)

\* C19: the outcome of a run attempt is set once: a terminal outcome never
\* changes, and an event that arrives for the attempt after its outcome is
\* set releases no handle and detaches no listener again.
C19_OutcomeSetOnce ==
  [][\A r \in 1..Len(runs) :
       Terminal(runs[r].outcome)
       => /\ runs'[r] = runs[r]
          /\ LateEvent(r)
             => /\ childProcess' = childProcess
                /\ \A p \in 1..Len(procs) :
                     /\ procs'[p].listening = procs[p].listening
                     /\ p # runs[r].proc => procs'[p] = procs[p]]_vars

\* Every process the runAll call c launched has terminated, or the signal the
\* call was given has been aborted.
AllTerminated(c) ==
  \/ calls[c].sig # NoSignal /\ calls[c].sig \in aborted
  \/ \A i \in 1..Len(calls[c].returned) :
       calls[c].returned[i].run # 0
       => procs[calls[c].returned[i].proc].state \in {"closed", "errored"}

\* C20: a runAll call on a non-empty collection returns once every process it
\* launched has terminated or its signal has been aborted, whatever other
\* signals were aborted meanwhile: again and again, no such call is awaiting.
C20_RunAllReturns ==
  []<>(\A c \in 1..Len(calls) :
         (Len(processes) > 0 /\ AllTerminated(c)) => calls[c].state # "awaiting")

\* The outcome, after this step, of the promise the call of this step returned.
ReturnedOutcome ==
  IF lastCall'.run = 0 THEN lastCall'.outcome ELSE runs'[lastCall'.run].outcome

\* The latest call on the memoized unit was made with the context sig and its
\* promise has resolved; sig has not been aborted.
LatestResolvedUnder(sig) ==
  /\ memo.latest # 0
  /\ runs[memo.latest].sig = sig
  /\ runs[memo.latest].outcome = "resolved"
  /\ ~alreadyAborted(sig)

\* C21: on a memoized unit, after any history of calls, when the latest run
\* resolved under a context (a signal, or no signal) that has not been
\* aborted, the next run call with the same context spawns no process and
\* resolves.
C21_CacheReusedAfterAnyHistory ==
  [][(RunCallStep /\ LatestResolvedUnder(memo'.arg))
      => (procs' = procs /\ ReturnedOutcome = "resolved")]_vars

\* C22: on a memoized unit a run call with a signal that is already aborted
\* is not served from the cache: it rejects with AlreadyCancelled and spawns
\* nothing, even when a success is cached for that signal.
C22_AbortedSignalNotServed ==
  [][(RunCallStep /\ alreadyAborted(memo'.arg))
      => /\ ~memo'.served
         /\ ReturnedOutcome = "AlreadyCancelled"
         /\ procs' = procs]_vars

\* C23: on a memoized unit a run call whose context differs from the context
\* of the cache is never served from it: it gets what the unit's own run
\* returns (a new process when the unit is idle and the signal not aborted),
\* and afterwards the cache holds the latest context only, with that call's
\* promise or nothing.
C23_OtherContextNotServed ==
  [][(RunCallStep /\ memo'.arg # memo.lastSignal)
      => /\ ~memo'.served
         /\ lastCall' = run(World, lastCall'.unit, memo'.arg, 0).last
         /\ procs' = run(World, lastCall'.unit, memo'.arg, 0).pr
         /\ (childProcess[lastCall'.unit] = NoProc /\ ~alreadyAborted(memo'.arg))
            => Len(procs') = Len(procs) + 1
         /\ memo'.lastSignal = memo'.arg
         /\ memo'.lastResult \in {lastCall', NoCall}]_vars

\* C23 witness: a run made with a signal resolved and was cached; a call with
\* another context came in between; the call just made, with the first
\* signal again, has spawned a new process.
C23_Witness ==
  /\ Len(runs) >= 2
  /\ runs[1].sig # NoSignal
  /\ runs[1].outcome = "resolved"
  /\ runs[2].sig = runs[1].sig
  /\ lastCall.run = 2
  /\ ~memo.served

\* The processes of unit u, live, that a runAll call launched.
LiveOfRunAll(u) == {p \in LiveProcs(u) : runs[procs[p].run].call # 0}

\* This step is a run() call a caller made on a unit, not one of runAll.
DirectRunStep == RunCallStep /\ calls' = calls

\* C24: runAll leaves the units' ids alone and starts a unit through its
\* run: while a process runAll launched for a unit is live the unit holds it
\* as its handle, and a run call on that unit, made by a caller or by another
\* runAll (signal not aborted), is rejected with AlreadyRunning and spawns
\* nothing.
C24_RunAllGoesThroughRun ==
  [][/\ RunAllStep => coll'.ids = coll.ids
     /\ \A r \in 1..Len(runs') :
          (runs'[r].call # 0 /\ procs'[runs'[r].proc].state = "running")
          => childProcess'[runs'[r].unit] = runs'[r].proc
     /\ (DirectRunStep /\ ~alreadyAborted(lastCall'.sig)
           /\ LiveOfRunAll(lastCall'.unit) # {})
        => (lastCall'.outcome = "AlreadyRunning" /\ procs' = procs)
     /\ RunAllStep
        => \A i \in 1..Len(calls'[Len(calls')].returned) :
             LET ret == calls'[Len(calls')].returned[i]
             IN (~alreadyAborted(ret.sig) /\ LiveOfRunAll(ret.unit) # {})
                => (ret.outcome = "AlreadyRunning" /\ ret.proc = NoProc)]_vars

\* The promise of the i-th unit of the runAll call c was rejected before this
\* step, and after it.
FailedBefore(c, i) ==
  c <= Len(calls) /\ Rejected(outcomeOf(World, calls[c].returned[i]))

FailedAfter(c, i) == Rejected(outcomeOf([rn |-> runs'], calls'[c].returned[i]))

\* C25: when a runAll that started units returns failure, its error is the
\* error of one of its own units whose run failed or was cancelled, and of
\* the first of them to fail: no other unit of the call failed in an earlier
\* step, or before it in the same step.
C25_FirstFailureSurfaced ==
  [][\A c \in 1..Len(calls') :
       (ReturnsNow(c) /\ calls'[c].state = "rejected"
          /\ Len(calls'[c].returned) > 0)
       => \E i \in 1..Len(calls'[c].returned) :
            /\ FailedAfter(c, i)
            /\ calls'[c].error = errorOf([rn |-> runs'], calls'[c].returned[i])
            /\ \A j \in 1..Len(calls'[c].returned) :
                 /\ FailedBefore(c, j) => FailedBefore(c, i)
                 /\ (FailedAfter(c, j) /\ j < i) => FailedBefore(c, i)]_vars

OutcomeAfter(c, i) == outcomeOf([rn |-> runs'], calls'[c].returned[i])

\* C27: a runAll starts the units the collection holds when it is called,
\* each once and in order; addProcess and removeProcess during the call
\* start, stop and settle nothing and leave the promises the call awaits as
\* they are; and the call's state follows from those promises alone: resolved
\* only when all of them are resolved, rejected only when one is rejected,
\* awaiting only while one is pending.
C27_RunAllSnapshot ==
  [][/\ RunAllStep
        => LET call == calls'[Len(calls')]
           IN /\ Len(call.returned) \in {0, Len(processes)}
              /\ Len(call.returned) = 0 => call.state # "awaiting"
              /\ \A i \in 1..Len(call.returned) :
                   /\ call.returned[i].unit = processes[i]
                   /\ \A j \in 1..Len(call.returned) :
                        (i # j /\ call.returned[i].run # 0)
                        => call.returned[i].run # call.returned[j].run
     /\ processes' # processes => (calls' = calls /\ UnitStateUnchanged)
     /\ \A c \in 1..Len(calls) : calls'[c].returned = calls[c].returned
     /\ \A c \in 1..Len(calls') :
          LET n == Len(calls'[c].returned)
          IN /\ calls'[c].state = "resolved"
                => \A i \in 1..n : OutcomeAfter(c, i) = "resolved"
             /\ (calls'[c].state = "rejected" /\ n > 0)
                => \E i \in 1..n : Rejected(OutcomeAfter(c, i))
             /\ calls'[c].state = "awaiting"
                => \E i \in 1..n : OutcomeAfter(c, i) = "pending"]_vars

\* C27 witness: the call started two units; while it was in flight one of
\* them was removed and a unit was added again; the call has resolved.
C27_Witness ==
  /\ Len(calls) = 1
  /\ calls[1].state = "resolved"
  /\ Len(calls[1].returned) = 2
  /\ Len(processes) = 1
  /\ processes # <<calls[1].returned[1].unit>>

====
